---- MODULE Spec2Model ----
(***************************************************************************)
(* Local-ID assignment and printing of ir.Func (src/ir/func.go) and the    *)
(* lowering of constants with deferred block-address fixup                 *)
(* (src/asm/const.go).                                                     *)
(***************************************************************************)
EXTENDS Integers, Sequences, FiniteSets, TLC

VARIABLES
  f,      \* the function: its parameters and blocks
  ret,    \* what the last operation on f returned
  calls,  \* AssignIDs and LLString (fixups, where constants are fixed up)
          \* invoked since f was last edited: 0, 1, or 2 for more
  mu,     \* f.mu: the process that holds it, or 0
  procs,  \* per process: where its AssignIDs is, with its locals id and pos
  f0,     \* f as it was when its block list became final
  todo,   \* gen.todo: the block-address constants lowered
  final,  \* whether the function bodies are translated
  arg,    \* the expected type and the AST constant handed to irConstant
  res     \* what irConstant returned for arg

seqVars == <<ret, calls>>
concVars == <<mu, procs>>
fixVars == <<todo, final>>
constVars == <<arg, res>>
vars == <<f, ret, calls, mu, procs, f0, todo, final, arg, res>>

(* ---------------------------------------------------------------------- *)
(* Bounds                                                                  *)
(* ---------------------------------------------------------------------- *)

\* largest ID a local carries before numbering
MaxID == 2
\* largest number of parameters handed to NewFunc
MaxParams == 2
\* largest number of locals (parameters, blocks, instructions, terminators)
MaxLocals == 4
\* number of processes that invoke AssignIDs on the same function
NumProcs == 2
\* largest number of locals of the function they invoke it on
MaxConcLocals == 3
\* largest number of blocks of a function that block addresses refer to
MaxFixBlocks == 2
\* largest number of block-address constants lowered
MaxTodo == 2
\* largest number of fields of a structure type or constant
MaxFields == 2

(* ---------------------------------------------------------------------- *)
(* Values                                                                  *)
(* ---------------------------------------------------------------------- *)

NoErr == [kind |-> "nil"]

NoArg == [t |-> "", old |-> ""]

NoRes == [done |-> FALSE]

\* the identifiers a local is created with: a name, or no name and an ID
Idents(names) ==
  [LocalName : names, LocalID : {0}] \cup [LocalName : {""}, LocalID : 0..MaxID]

Value(kind, void, ident) ==
  [kind |-> kind, void |-> void, LocalName |-> ident.LocalName, LocalID |-> ident.LocalID]

ParamValues == {Value("param", FALSE, i) : i \in Idents({"x"})}

NoIdent == [LocalName |-> "", LocalID |-> 0]

\* instructions: calls (void or not), other value instructions, and
\* instructions that are no local (store)
InstValues ==
  {Value("call", FALSE, i) : i \in Idents({"x"})}
    \cup {Value("call", TRUE, NoIdent)}
    \cup {Value("add", FALSE, i) : i \in Idents({"x"})}
    \cup {Value("store", TRUE, NoIdent)}

\* terminators: invokes (void or not) and terminators that are no local (ret)
TermValues ==
  {Value("invoke", FALSE, i) : i \in Idents({"x"})}
    \cup {Value("invoke", TRUE, NoIdent)}
    \cup {Value("ret", TRUE, NoIdent)}

Block(ident, term) ==
  [LocalName |-> ident.LocalName, LocalID |-> ident.LocalID, Insts |-> <<>>, Term |-> term]

SeqsUpTo(S, n) == UNION {[1..k -> S] : k \in 0..n}

(* ---------------------------------------------------------------------- *)
(* ir.Func                                                                 *)
(* ---------------------------------------------------------------------- *)

NewFunc(name, params) ==
  [GlobalName |-> name, Params |-> params, Blocks |-> <<>>,
   Linkage |-> "", Metadata |-> <<>>]

IsUnnamed(n) == n.LocalName = ""

ID(n) == n.LocalID

SetID(n, id) == [n EXCEPT !.LocalID = id]

\* inst.(local), block.Term.(local)
isLocal(n) == n.kind \notin {"store", "ret"}

\* isVoidValue that takes no call for void
isVoidValue_never(n) == FALSE

isVoidValue(n) == IF n.kind \in {"call", "invoke"} THEN n.void ELSE FALSE

\* the places the loops of AssignIDs visit, in the order they visit them
paramPaths(fn) == [i \in 1..Len(fn.Params) |-> [k |-> "param", b |-> 0, i |-> i]]

blockPaths(fn, b) ==
  <<[k |-> "block", b |-> b, i |-> 0]>>
    \o [i \in 1..Len(fn.Blocks[b].Insts) |-> [k |-> "inst", b |-> b, i |-> i]]
    \o <<[k |-> "term", b |-> b, i |-> 0]>>

RECURSIVE blocksFrom(_, _)
blocksFrom(fn, b) ==
  IF b > Len(fn.Blocks) THEN <<>> ELSE blockPaths(fn, b) \o blocksFrom(fn, b + 1)

visitOrder(fn) == paramPaths(fn) \o blocksFrom(fn, 1)

Get(fn, p) ==
  CASE p.k = "param" -> fn.Params[p.i]
    [] p.k = "block" -> fn.Blocks[p.b]
    [] p.k = "inst" -> fn.Blocks[p.b].Insts[p.i]
    [] p.k = "term" -> fn.Blocks[p.b].Term

Put(fn, p, n) ==
  CASE p.k = "param" -> [fn EXCEPT !.Params[p.i] = n]
    [] p.k = "block" -> [fn EXCEPT !.Blocks[p.b] = n]
    [] p.k = "inst" -> [fn EXCEPT !.Blocks[p.b].Insts[p.i] = n]
    [] p.k = "term" -> [fn EXCEPT !.Blocks[p.b].Term = n]

InvalidLocalID(fn, want, got) ==
  [kind |-> "InvalidLocalID", func |-> fn.GlobalName, want |-> want, got |-> got]

\* setName that rejects every ID set beforehand
setName_rejectPreset(w, p) ==
  LET n == Get(w.f, p) IN
  IF IsUnnamed(n)
  THEN IF ID(n) # 0
       THEN [w EXCEPT !.err = InvalidLocalID(w.f, w.id, ID(n))]
       ELSE [f |-> Put(w.f, p, SetID(n, w.id)), id |-> w.id + 1, err |-> NoErr]
  ELSE w

\* setName that checks nothing and overwrites
setName_overwrite(w, p) ==
  LET n == Get(w.f, p) IN
  IF IsUnnamed(n)
  THEN [f |-> Put(w.f, p, SetID(n, w.id)), id |-> w.id + 1, err |-> NoErr]
  ELSE w

\* the closure setName of AssignIDs, on the local at place p;
\* w holds the function, the counter id and the error returned
setName(w, p) ==
  LET n == Get(w.f, p) IN
  IF IsUnnamed(n)
  THEN IF ID(n) # 0 /\ w.id # ID(n)
       THEN [w EXCEPT !.err = InvalidLocalID(w.f, w.id, ID(n))]
       ELSE [f |-> Put(w.f, p, SetID(n, w.id)), id |-> w.id + 1, err |-> NoErr]
  ELSE w

\* one iteration of the loops of AssignIDs
visit(w, p) ==
  IF p.k \in {"inst", "term"} /\ (~isLocal(Get(w.f, p)) \/ isVoidValue(Get(w.f, p)))
  THEN w
  ELSE setName(w, p)

RECURSIVE walk(_, _, _)
walk(w, order, pos) ==
  IF pos > Len(order) \/ w.err # NoErr
  THEN w
  ELSE walk(visit(w, order[pos]), order, pos + 1)

\* AssignIDs that numbers the parameters of a declaration too
AssignIDs_noEarlyReturn(fn) ==
  LET w == walk([f |-> fn, id |-> 0, err |-> NoErr], visitOrder(fn), 1)
  IN [f |-> w.f, err |-> w.err]

AssignIDs(fn) ==
  IF Len(fn.Blocks) = 0
  THEN [f |-> fn, err |-> NoErr]
  ELSE LET w == walk([f |-> fn, id |-> 0, err |-> NoErr], visitOrder(fn), 1)
       IN [f |-> w.f, err |-> w.err]

\* enc.Local of an identifier: the name, or the ID in decimal
localIdent(n) == "%" \o (IF IsUnnamed(n) THEN ToString(ID(n)) ELSE n.LocalName)

headerString(fn) == <<"@" \o fn.GlobalName>>

bodyString(fn) ==
  <<"{">> \o [b \in 1..Len(fn.Blocks) |-> localIdent(fn.Blocks[b])] \o <<"}">>

linkageString(fn) == IF fn.Linkage # "" THEN <<fn.Linkage>> ELSE <<>>

\* the panic of LLString: fmt.Errorf("unable to assign IDs of function %q; %v")
AssignPanic(fn, err) ==
  [kind |-> "panic", msg |-> "unable to assign IDs of function",
   func |-> fn.GlobalName, cause |-> err]

\* LLString that drops the error of AssignIDs
LLString_ignoreErr(fn) ==
  IF Len(fn.Blocks) = 0
  THEN [f |-> fn, panic |-> NoErr,
        out |-> <<"declare">> \o fn.Metadata \o linkageString(fn) \o headerString(fn)]
  ELSE LET r == AssignIDs(fn) IN
       [f |-> r.f, panic |-> NoErr,
        out |-> <<"define">> \o linkageString(r.f) \o headerString(r.f)
                  \o r.f.Metadata \o bodyString(r.f)]

\* LLString returns a string and nothing else: out is the text returned, and
\* panic the value it panics with instead of returning
LLString(fn) ==
  IF Len(fn.Blocks) = 0
  THEN [f |-> fn, panic |-> NoErr,
        out |-> <<"declare">> \o fn.Metadata \o linkageString(fn) \o headerString(fn)]
  ELSE LET r == AssignIDs(fn) IN
       IF r.err # NoErr
       THEN [f |-> r.f, panic |-> AssignPanic(fn, r.err), out |-> <<>>]
       ELSE [f |-> r.f, panic |-> NoErr,
             out |-> <<"define">> \o linkageString(r.f) \o headerString(r.f)
                       \o r.f.Metadata \o bodyString(r.f)]

(* ---------------------------------------------------------------------- *)
(* Sequential use of one function                                          *)
(* ---------------------------------------------------------------------- *)

\* one more invocation: the first, or a later one
again(n) == IF n = 0 THEN 1 ELSE 2

Ret(op, err, out, panic) == [op |-> op, err |-> err, out |-> out, panic |-> panic]

Init ==
  /\ f \in {NewFunc("f", ps) : ps \in SeqsUpTo(ParamValues, MaxParams)}
  /\ ret = Ret("NewFunc", NoErr, <<>>, NoErr)
  /\ calls = 0
  /\ mu = 0 /\ procs = <<>> /\ f0 = f
  /\ todo = <<>> /\ final = FALSE
  /\ arg = NoArg /\ res = NoRes

\* a caller appends a block to f.Blocks
NewBlock ==
  /\ Len(visitOrder(f)) + 2 <= MaxLocals
  /\ \E i \in Idents({"a"}), t \in TermValues :
       f' = [f EXCEPT !.Blocks = Append(@, Block(i, t))]
  /\ ret' = Ret("edit", NoErr, <<>>, NoErr)
  /\ calls' = 0
  /\ UNCHANGED <<concVars, f0, fixVars, constVars>>

\* a caller appends an instruction to the last block
NewInst ==
  /\ Len(f.Blocks) > 0
  /\ Len(visitOrder(f)) + 1 <= MaxLocals
  /\ \E n \in InstValues :
       f' = [f EXCEPT !.Blocks[Len(f.Blocks)].Insts = Append(@, n)]
  /\ ret' = Ret("edit", NoErr, <<>>, NoErr)
  /\ calls' = 0
  /\ UNCHANGED <<concVars, f0, fixVars, constVars>>

DoAssignIDs ==
  /\ f' = AssignIDs(f).f
  /\ ret' = Ret("AssignIDs", AssignIDs(f).err, <<>>, NoErr)
  /\ calls' = again(calls)
  /\ UNCHANGED <<concVars, f0, fixVars, constVars>>

DoLLString ==
  /\ f' = LLString(f).f
  /\ ret' = Ret("LLString", NoErr, LLString(f).out, LLString(f).panic)
  /\ calls' = again(calls)
  /\ UNCHANGED <<concVars, f0, fixVars, constVars>>

Next == NewBlock \/ NewInst \/ DoAssignIDs \/ DoLLString

Spec == Init /\ [][Next]_vars

(* ---------------------------------------------------------------------- *)
(* Concurrent AssignIDs on one function                                    *)
(* ---------------------------------------------------------------------- *)

Procs == 1..NumProcs

\* pc: "idle" before the pass, "loop" in it, "done" after the return
Idle == [pc |-> "idle", id |-> 0, pos |-> 0, err |-> NoErr]

InitConc ==
  /\ f \in {NewFunc("f", ps) : ps \in SeqsUpTo(ParamValues, MaxParams)}
  /\ Len(visitOrder(f)) <= MaxConcLocals
  /\ ret = Ret("NewFunc", NoErr, <<>>, NoErr)
  /\ calls = 0
  /\ mu = 0
  /\ procs = [p \in Procs |-> Idle]
  /\ f0 = f
  /\ todo = <<>> /\ final = FALSE
  /\ arg = NoArg /\ res = NoRes

NotStarted == \A p \in Procs : procs[p] = Idle

\* the function is built before the processes share it
ConcNewBlock ==
  /\ NotStarted
  /\ Len(visitOrder(f)) + 2 <= MaxConcLocals
  /\ \E i \in Idents({"a"}), t \in TermValues :
       f' = [f EXCEPT !.Blocks = Append(@, Block(i, t))]
  /\ f0' = f'
  /\ UNCHANGED <<seqVars, mu, procs, fixVars, constVars>>

ConcNewInst ==
  /\ NotStarted
  /\ Len(f.Blocks) > 0
  /\ Len(visitOrder(f)) + 1 <= MaxConcLocals
  /\ \E n \in InstValues :
       f' = [f EXCEPT !.Blocks[Len(f.Blocks)].Insts = Append(@, n)]
  /\ f0' = f'
  /\ UNCHANGED <<seqVars, mu, procs, fixVars, constVars>>

\* f.mu.Lock() that goes on whoever holds f.mu
lockFree_always(m) == TRUE

\* f.mu.Lock() goes on when no process holds f.mu
lockFree(m) == m = 0

\* p invokes AssignIDs: if len(f.Blocks) == 0 { return nil }; f.mu.Lock();
\* id := int64(0). The block list is final here, so reading its length
\* commutes with the steps of the other processes, and the invocation is
\* taken up where it gets f.mu.
Enter(p) ==
  /\ procs[p].pc = "idle"
  /\ IF Len(f.Blocks) = 0
     THEN /\ procs' = [procs EXCEPT ![p].pc = "done", ![p].err = NoErr]
          /\ mu' = mu
     ELSE /\ lockFree(mu)
          /\ mu' = p
          /\ procs' = [procs EXCEPT ![p].pc = "loop", ![p].id = 0, ![p].pos = 1]
  /\ UNCHANGED <<f, seqVars, f0, fixVars, constVars>>

\* p returns err: the deferred f.mu.Unlock() runs
Return(p, err) ==
  /\ mu' = 0
  /\ procs' = [procs EXCEPT ![p].pc = "done", ![p].id = 0, ![p].pos = 0, ![p].err = err]

\* one iteration of the loops, or the return after the last
Iterate(p) ==
  /\ procs[p].pc = "loop"
  /\ IF procs[p].pos > Len(visitOrder(f))
     THEN /\ Return(p, NoErr)
          /\ f' = f
     ELSE LET w == visit([f |-> f, id |-> procs[p].id, err |-> NoErr],
                         visitOrder(f)[procs[p].pos])
          IN /\ f' = w.f
             /\ IF w.err # NoErr
                THEN Return(p, w.err)
                ELSE /\ procs' = [procs EXCEPT ![p].id = w.id, ![p].pos = @ + 1]
                     /\ mu' = mu
  /\ UNCHANGED <<seqVars, f0, fixVars, constVars>>

NextConc ==
  \/ ConcNewBlock
  \/ ConcNewInst
  \/ \E p \in Procs : Enter(p)
  \/ \E p \in Procs : Iterate(p)

SpecConc == InitConc /\ [][NextConc]_vars

(* ---------------------------------------------------------------------- *)
(* Block-address constants and their fixup (asm)                           *)
(* ---------------------------------------------------------------------- *)

\* a *ir.BasicBlock: the dummy block made for a name, or the block at
\* index idx of the block list of the function (blocks are only appended)
Dummy(name) == [obj |-> "dummy", LocalName |-> name, idx |-> 0]

BlockAt(idx) == [obj |-> "block", LocalName |-> "", idx |-> idx]

\* c.Block.LocalName
blockLocalName(ref, fn) ==
  IF ref.obj = "dummy" THEN ref.LocalName ELSE fn.Blocks[ref.idx].LocalName

\* the names of blocks the assembly refers to: %a, %b, %1
PlaceholderNames == {"a", "b", "1"}

\* gen.function: the functions declared are known by name
function(funcName) ==
  IF funcName = "f"
  THEN [f |-> "f", err |-> NoErr]
  ELSE [f |-> "", err |-> [kind |-> "UnresolvedSymbol", name |-> funcName]]

NewBlockAddress(fname, block) == [Func |-> fname, Block |-> block]

irBlockAddressConst(q, funcName, blockName) ==
  LET r == function(funcName) IN
  IF r.err # NoErr
  THEN [todo |-> q, err |-> r.err]
  ELSE [todo |-> Append(q, NewBlockAddress(r.f, Dummy(blockName))), err |-> NoErr]

DanglingBlockReference(blockName, fn) ==
  [kind |-> "DanglingBlockReference", block |-> blockName, func |-> fn.GlobalName]

\* block.LocalName == blockName, read by the identifier printed
blockMatches_byIdent(block, blockName) ==
  (IF IsUnnamed(block) THEN ToString(ID(block)) ELSE block.LocalName) = blockName

\* block.LocalName == blockName
blockMatches(block, blockName) == block.LocalName = blockName

\* the loop of fixBlockAddressConst from block b on
RECURSIVE scanBlocks(_, _, _, _)
scanBlocks(c, fn, blockName, b) ==
  IF b > Len(fn.Blocks)
  THEN [c |-> c, err |-> DanglingBlockReference(blockName, fn)]
  ELSE IF blockMatches(fn.Blocks[b], blockName)
       THEN [c |-> [c EXCEPT !.Block = BlockAt(b)], err |-> NoErr]
       ELSE scanBlocks(c, fn, blockName, b + 1)

\* the loop without its return nil: every match is stored, and the error
\* after the loop is returned
RECURSIVE scanBlocks_noReturn(_, _, _, _)
scanBlocks_noReturn(c, fn, blockName, b) ==
  IF b > Len(fn.Blocks)
  THEN [c |-> c, err |-> DanglingBlockReference(blockName, fn)]
  ELSE IF blockMatches(fn.Blocks[b], blockName)
       THEN scanBlocks_noReturn([c EXCEPT !.Block = BlockAt(b)], fn, blockName, b + 1)
       ELSE scanBlocks_noReturn(c, fn, blockName, b + 1)

fixBlockAddressConst_noReturn(c, fn) ==
  scanBlocks_noReturn(c, fn, blockLocalName(c.Block, fn), 1)

\* fixBlockAddressConst without c.Block = block
fixBlockAddressConst_noWrite(c, fn) ==
  [c |-> c, err |-> scanBlocks(c, fn, blockLocalName(c.Block, fn), 1).err]

fixBlockAddressConst(c, fn) == scanBlocks(c, fn, blockLocalName(c.Block, fn), 1)

InitFix ==
  /\ f = NewFunc("f", <<>>)
  /\ ret = Ret("NewFunc", NoErr, <<>>, NoErr)
  /\ calls = 0
  /\ mu = 0 /\ procs = <<>> /\ f0 = f
  /\ todo = <<>> /\ final = FALSE
  /\ arg = NoArg /\ res = NoRes

\* a constant blockaddress(@funcName, %blockName) is lowered
LowerBlockAddress ==
  /\ ~final
  /\ Len(todo) < MaxTodo
  /\ \E funcName \in {"f", "h"}, blockName \in PlaceholderNames :
       LET r == irBlockAddressConst(todo, funcName, blockName) IN
       /\ todo' = r.todo
       /\ ret' = Ret("irBlockAddressConst", r.err, <<>>, NoErr)
  /\ UNCHANGED <<f, calls, concVars, constVars, f0, final>>

\* a block of the body of f is translated
TranslateBlock ==
  /\ ~final
  /\ Len(f.Blocks) < MaxFixBlocks
  /\ \E i \in Idents({"a", "b"}) :
       f' = [f EXCEPT !.Blocks = Append(@, Block(i, Value("ret", TRUE, NoIdent)))]
  /\ f0' = f'
  /\ ret' = Ret("edit", NoErr, <<>>, NoErr)
  /\ UNCHANGED <<calls, concVars, fixVars, constVars>>

\* the function bodies are translated: the block lists are final
Finish ==
  /\ ~final
  /\ final' = TRUE
  /\ ret' = Ret("edit", NoErr, <<>>, NoErr)
  /\ UNCHANGED <<f, calls, concVars, constVars, f0, todo>>

\* fixBlockAddressConst on the i-th constant of gen.todo
Fix(i) ==
  /\ final
  /\ LET r == fixBlockAddressConst(todo[i], f) IN
       /\ todo' = [todo EXCEPT ![i] = r.c]
       /\ ret' = [op |-> "fix", err |-> r.err, out |-> <<>>, panic |-> NoErr, i |-> i]
  /\ calls' = again(calls)
  /\ UNCHANGED <<f, concVars, constVars, f0, final>>

\* AssignIDs on f, before or after any fixup
FixAssignIDs ==
  /\ final
  /\ f' = AssignIDs(f).f
  /\ ret' = Ret("AssignIDs", AssignIDs(f).err, <<>>, NoErr)
  /\ UNCHANGED <<calls, concVars, f0, fixVars, constVars>>

NextFix ==
  \/ LowerBlockAddress
  \/ TranslateBlock
  \/ Finish
  \/ \E i \in 1..Len(todo) : Fix(i)
  \/ FixAssignIDs

SpecFix == InitFix /\ [][NextFix]_vars

(* ---------------------------------------------------------------------- *)
(* Lowering of constants (asm)                                             *)
(* ---------------------------------------------------------------------- *)

\* types.Type
IntType(bits) == [k |-> "IntType", BitSize |-> bits, Fields |-> <<>>]

PointerType == [k |-> "PointerType", BitSize |-> 0, Fields |-> <<>>]

StructType(fields) == [k |-> "StructType", BitSize |-> 0, Fields |-> fields]

\* ast.Type: the type as the assembly writes it
AstType(t) == [node |-> t.k, BitSize |-> t.BitSize, Fields |-> t.Fields]

\* gen.irType, on the types above
RECURSIVE irType(_)
irType(old) ==
  [typ |-> [k |-> old.node, BitSize |-> old.BitSize,
            Fields |-> [i \in 1..Len(old.Fields) |-> irType(AstType(old.Fields[i])).typ]],
   err |-> NoErr]

\* ast.Constant
IntConst(text) == [node |-> "IntConst", text |-> text]

BoolConst(lit) == [node |-> "BoolConst", lit |-> lit]

NullConst == [node |-> "NullConst"]

UndefConst == [node |-> "UndefConst"]

ZeroInitializerConst == [node |-> "ZeroInitializerConst"]

TypeConst(typ, val) == [Typ |-> typ, Val |-> val]

StructConst(fields) == [node |-> "StructConst", Fields |-> fields]

TypeMismatch(msg, t) == [kind |-> "TypeMismatch", msg |-> msg, got |-> t.k]

\* constant.NewIntFromString, on the literals 1 and 2
NewIntFromString(typ, s) ==
  CASE s = "1" -> [c |-> [k |-> "Int", Typ |-> typ, X |-> 1], err |-> NoErr]
    [] s = "2" -> [c |-> [k |-> "Int", Typ |-> typ, X |-> 2], err |-> NoErr]
    [] OTHER -> [c |-> NoErr, err |-> [kind |-> "MalformedLiteral", text |-> s]]

irBoolConst(t, old) ==
  IF t.k # "IntType"
  THEN [c |-> NoErr, err |-> TypeMismatch("invalid type of boolean constant", t)]
  ELSE IF t.BitSize # 1
       THEN [c |-> NoErr,
             err |-> TypeMismatch("invalid integer type bit size of boolean constant", t)]
       ELSE [c |-> [k |-> "Int", Typ |-> IntType(1), X |-> IF old.lit THEN 1 ELSE 0],
             err |-> NoErr]

irIntConst(t, old) ==
  IF t.k # "IntType"
  THEN [c |-> NoErr, err |-> TypeMismatch("invalid type of integer constant", t)]
  ELSE NewIntFromString(t, old.text)

irNullConst(t, old) ==
  IF t.k # "PointerType"
  THEN [c |-> NoErr, err |-> TypeMismatch("invalid type of null constant", t)]
  ELSE [c |-> [k |-> "Null", Typ |-> t], err |-> NoErr]

irZeroInitializerConst(t, old) == [c |-> [k |-> "ZeroInitializer", Typ |-> t], err |-> NoErr]

irUndefConst(t, old) == [c |-> [k |-> "Undef", Typ |-> t], err |-> NoErr]

NewStruct(typ, fields) == [k |-> "Struct", Typ |-> typ, Fields |-> fields]

RECURSIVE irConstant(_, _)
RECURSIVE lowerFields(_, _)

irTypeConst(old) ==
  LET r == irType(old.Typ) IN
  IF r.err # NoErr THEN [c |-> NoErr, err |-> r.err] ELSE irConstant(r.typ, old.Val)

\* the loop of irStructConst over old.Fields(), with the fields lowered so far
lowerFields(rest, fields) ==
  IF rest = <<>>
  THEN [fields |-> fields, err |-> NoErr]
  ELSE LET r == irTypeConst(Head(rest)) IN
       IF r.err # NoErr
       THEN [fields |-> <<>>, err |-> r.err]
       ELSE lowerFields(Tail(rest), Append(fields, r.c))

irStructConst(t, old) ==
  IF t.k # "StructType"
  THEN [c |-> NoErr, err |-> TypeMismatch("invalid type of struct constant", t)]
  ELSE LET r == lowerFields(old.Fields, <<>>) IN
       IF r.err # NoErr
       THEN [c |-> NoErr, err |-> r.err]
       ELSE [c |-> NewStruct(t, r.fields), err |-> NoErr]

irConstant(t, old) ==
  CASE old.node = "BoolConst" -> irBoolConst(t, old)
    [] old.node = "IntConst" -> irIntConst(t, old)
    [] old.node = "NullConst" -> irNullConst(t, old)
    [] old.node = "StructConst" -> irStructConst(t, old)
    [] old.node = "ZeroInitializerConst" -> irZeroInitializerConst(t, old)
    [] old.node = "UndefConst" -> irUndefConst(t, old)

ScalarTypes == {IntType(1), IntType(32), IntType(64), PointerType}

FieldTypes == {IntType(32), IntType(64)}

Types == ScalarTypes \cup {StructType(fs) : fs \in SeqsUpTo(FieldTypes, MaxFields)}

ScalarConsts ==
  {IntConst("1"), IntConst("2"), BoolConst(TRUE), BoolConst(FALSE),
   NullConst, UndefConst, ZeroInitializerConst}

FieldConsts ==
  {TypeConst(AstType(t), v) :
     t \in FieldTypes \cup {PointerType}, v \in {IntConst("1"), IntConst("2"), NullConst}}

AstConsts == ScalarConsts \cup {StructConst(fs) : fs \in SeqsUpTo(FieldConsts, MaxFields)}

InitConst ==
  /\ f = NewFunc("f", <<>>)
  /\ ret = Ret("NewFunc", NoErr, <<>>, NoErr)
  /\ calls = 0
  /\ mu = 0 /\ procs = <<>> /\ f0 = f
  /\ todo = <<>> /\ final = FALSE
  /\ arg \in [t : Types, old : AstConsts]
  /\ res = NoRes

\* gen.irConstant(t, old)
Lower ==
  /\ ~res.done
  /\ LET r == irConstant(arg.t, arg.old) IN
       res' = [done |-> TRUE, c |-> r.c, err |-> r.err]
  /\ UNCHANGED <<f, seqVars, concVars, f0, fixVars, arg>>

NextConst == Lower

SpecConst == InitConst /\ [][NextConst]_vars

(* ---------------------------------------------------------------------- *)
(* Properties of numbering and printing                                    *)
(* ---------------------------------------------------------------------- *)

\* a parameter, instruction or terminator that takes a number: it is a
\* local, it has no name, and it is no void call or invoke
TakesNumber(n) ==
  /\ n.kind \notin {"store", "ret"}
  /\ n.LocalName = ""
  /\ ~(n.kind \in {"call", "invoke"} /\ n.void)

IDsOf(s) == [i \in 1..Len(s) |-> s[i].LocalID]

BlockIDs(b) ==
  (IF b.LocalName = "" THEN <<b.LocalID>> ELSE <<>>)
    \o IDsOf(SelectSeq(b.Insts, TakesNumber))
    \o IDsOf(SelectSeq(<<b.Term>>, TakesNumber))

RECURSIVE AllBlockIDs(_)
AllBlockIDs(bs) == IF bs = <<>> THEN <<>> ELSE BlockIDs(Head(bs)) \o AllBlockIDs(Tail(bs))

\* the IDs of the locals that take a number: parameters in declaration
\* order, then per block its identity, its instructions and its terminator
NumberedIDs(fn) == IDsOf(SelectSeq(fn.Params, TakesNumber)) \o AllBlockIDs(fn.Blocks)

EraseValue(n) == IF TakesNumber(n) THEN [n EXCEPT !.LocalID = 0] ELSE n

EraseBlock(b) ==
  [LocalName |-> b.LocalName,
   LocalID |-> IF b.LocalName = "" THEN 0 ELSE b.LocalID,
   Insts |-> [i \in 1..Len(b.Insts) |-> EraseValue(b.Insts[i])],
   Term |-> EraseValue(b.Term)]

\* the function with the ID of every local that takes a number set to 0
Erase(fn) ==
  [fn EXCEPT !.Params = [i \in 1..Len(fn.Params) |-> EraseValue(fn.Params[i])],
             !.Blocks = [b \in 1..Len(fn.Blocks) |-> EraseBlock(fn.Blocks[b])]]

Dense(ids) == \A k \in 1..Len(ids) : ids[k] = k - 1

AllZero(ids) == \A k \in 1..Len(ids) : ids[k] = 0

\* C1: AssignIDs on a definition whose anonymous locals all hold ID 0
\* succeeds, and afterwards the locals that take a number hold 0, 1, ..,
\* N-1 in the order parameters, then per block identity, instructions,
\* terminator; void calls and invokes, named locals and everything else of
\* the function are as before.
C1_DenseNumbering ==
  [][(ret'.op = "AssignIDs" /\ Len(f.Blocks) > 0 /\ AllZero(NumberedIDs(f)))
       => /\ ret'.err = NoErr
          /\ Dense(NumberedIDs(f'))
          /\ Len(NumberedIDs(f')) = Len(NumberedIDs(f))
          /\ Erase(f') = Erase(f)]_vars

C1_Witness ==
  /\ ret.op = "AssignIDs" /\ ret.err = NoErr
  /\ Len(f.Blocks) = 1 /\ Len(f.Params) = 1
  /\ Len(f.Blocks[1].Insts) = 1
  /\ f.Blocks[1].Insts[1].kind = "call" /\ f.Blocks[1].Insts[1].void
  /\ f.Blocks[1].Insts[1].LocalID = 0
  /\ NumberedIDs(f) = <<0, 1, 2>>

\* C2: AssignIDs invoked again after a successful AssignIDs, with no edit
\* of the function in between, succeeds and changes no ID.
C2_Idempotent ==
  [][(ret.op = "AssignIDs" /\ ret.err = NoErr /\ ret'.op = "AssignIDs")
       => (ret'.err = NoErr /\ f' = f)]_vars

C2_Witness ==
  /\ ret.op = "AssignIDs" /\ ret.err = NoErr /\ calls = 2
  /\ Len(NumberedIDs(f)) >= 3

FirstMismatch(ids) ==
  CHOOSE k \in 1..Len(ids) :
    /\ ids[k] # 0 /\ ids[k] # k - 1
    /\ \A j \in 1..(k - 1) : ids[j] = 0 \/ ids[j] = j - 1

HasMismatch(ids) == \E k \in 1..Len(ids) : ids[k] # 0 /\ ids[k] # k - 1

\* C4: AssignIDs on a definition fails with InvalidLocalID, reporting the
\* expected and the actual ID, at the first anonymous local whose non-zero
\* ID differs from its sequence value, and leaves that ID as it is; with no
\* such local it succeeds.
C4_InvalidLocalID ==
  [][(ret'.op = "AssignIDs" /\ Len(f.Blocks) > 0)
       => LET ids == NumberedIDs(f) IN
          IF HasMismatch(ids)
          THEN LET k == FirstMismatch(ids) IN
               /\ ret'.err = [kind |-> "InvalidLocalID", func |-> f.GlobalName,
                               want |-> k - 1, got |-> ids[k]]
               /\ NumberedIDs(f')[k] = ids[k]
          ELSE ret'.err = NoErr]_vars

C4_Witness ==
  /\ ret.op = "AssignIDs" /\ ret.err.kind = "InvalidLocalID"
  /\ ret.err.want = 2 /\ ret.err.got = 1
  /\ NumberedIDs(f)[3] = 1

\* C5: on a function with no block AssignIDs succeeds and LLString returns
\* the declaration form, and neither changes the function.
C5_Declaration ==
  [][(ret'.op \in {"AssignIDs", "LLString"} /\ Len(f.Blocks) = 0)
       => /\ f' = f
          /\ ret'.err = NoErr /\ ret'.panic = NoErr
          /\ ret'.op = "LLString" =>
                /\ ret'.out[1] = "declare"
                /\ \A i \in 1..Len(ret'.out) : ret'.out[i] \notin {"define", "{", "}"}]_vars

C5_Witness ==
  /\ ret.op = "LLString" /\ Len(f.Blocks) = 0 /\ ret.out[1] = "declare"
  /\ Len(f.Params) = 2 /\ NumberedIDs(f) = <<2, 0>>

\* C6 as stated: a print whose numbering fails hands the numbering error
\* back to its caller as an error value.
C6_ExplicitError ==
  ret.op = "LLString" /\ ret.out = <<>> => (ret.err # NoErr /\ ret.panic = NoErr)

\* C6 amended: LLString of a definition numbers the function first; when
\* numbering fails it returns no text and panics with an error that wraps
\* the numbering error, and otherwise returns the definition form, whose
\* body is that of the numbered function.
C6_PanicOnError ==
  [][(ret'.op = "LLString" /\ Len(f.Blocks) > 0)
       => /\ f' = AssignIDs(f).f
          /\ ret'.err = NoErr
          /\ IF AssignIDs(f).err # NoErr
             THEN /\ ret'.out = <<>>
                  /\ ret'.panic.kind = "panic"
                  /\ ret'.panic.cause = AssignIDs(f).err
             ELSE /\ ret'.panic = NoErr
                  /\ ret'.out[1] = "define"
                  /\ Dense(NumberedIDs(f'))
                  /\ \A b \in 1..Len(f'.Blocks) :
                       \E i \in 1..Len(ret'.out) : ret'.out[i] = localIdent(f'.Blocks[b])]_vars

C6_Witness ==
  /\ ret.op = "LLString" /\ ret.panic.kind = "panic" /\ ret.out = <<>>
  /\ ret.panic.cause.kind = "InvalidLocalID"
  /\ Len(f.Blocks) > 0

(* ---------------------------------------------------------------------- *)
(* Properties of concurrent numbering                                      *)
(* ---------------------------------------------------------------------- *)

InPass(p) == procs[p].pc = "loop"

\* C3: of the processes that invoke AssignIDs on one function at most one
\* is in the numbering pass; each invocation returns what one sequential
\* invocation returns; once all have returned the IDs are those one
\* sequential invocation gives; and every ID is at any time the one the
\* local began with or the one it ends with.
C3_Serialized ==
  /\ Cardinality({p \in Procs : InPass(p)}) <= 1
  /\ \A p \in Procs : procs[p].pc = "done" => procs[p].err = AssignIDs(f0).err
  /\ (\A p \in Procs : procs[p].pc = "done") => f = AssignIDs(f0).f
  /\ \A i \in 1..Len(visitOrder(f0)) :
       LET p == visitOrder(f0)[i] IN
       Get(f, p).LocalID \in {Get(f0, p).LocalID, Get(AssignIDs(f0).f, p).LocalID}

\* one process is between two writes of its pass, which has changed an ID,
\* and another has yet to get f.mu
C3_Witness ==
  /\ procs[1].pc = "loop" /\ procs[1].pos = 3
  /\ procs[2].pc = "idle" /\ mu = 1
  /\ Len(f.Blocks) = 1 /\ Len(NumberedIDs(f)) = 3
  /\ f # f0 /\ f # AssignIDs(f0).f

(* ---------------------------------------------------------------------- *)
(* Properties of block-address fixup                                       *)
(* ---------------------------------------------------------------------- *)

BlocksNamed(fn, n) == {b \in 1..Len(fn.Blocks) : fn.Blocks[b].LocalName = n}

\* C7: the fixup of a constant that holds the dummy block named n, once
\* the block list of f is final, succeeds exactly when a block of f is
\* named n; it then refers to that block of the list (the first so named),
\* and otherwise the error names n and f and the constant keeps the dummy.
C7_FixupByName ==
  [][(ret'.op = "fix" /\ todo[ret'.i].Block.obj = "dummy")
       => LET i == ret'.i
              n == todo[i].Block.LocalName
              hits == BlocksNamed(f, n)
          IN IF hits # {}
             THEN /\ ret'.err = NoErr
                  /\ todo'[i].Func = "f"
                  /\ todo'[i].Block.obj = "block"
                  /\ todo'[i].Block.idx \in hits
                  /\ \A b \in hits : todo'[i].Block.idx <= b
             ELSE /\ ret'.err = [kind |-> "DanglingBlockReference", block |-> n, func |-> "f"]
                  /\ todo'[i] = todo[i]]_vars

C7_Witness ==
  /\ ret.op = "fix" /\ ret.err = NoErr
  /\ todo[ret.i].Block.obj = "block" /\ todo[ret.i].Block.idx = 2
  /\ f.Blocks[2].LocalName = "b" /\ f.Blocks[1].LocalName = ""

\* C8: the block reference of a constant changes only from the dummy to
\* the block, at a fixup that succeeds, and every successful fixup leaves
\* it resolved; a fixup of a resolved constant leaves the reference as it is.
C8_ResolvedOnce ==
  [][\A i \in 1..Len(todo) :
       /\ todo[i].Block.obj = "block" => todo'[i] = todo[i]
       /\ todo'[i].Block # todo[i].Block
            => /\ todo[i].Block.obj = "dummy" /\ todo'[i].Block.obj = "block"
               /\ ret'.op = "fix" /\ ret'.i = i /\ ret'.err = NoErr
       /\ (ret'.op = "fix" /\ ret'.i = i /\ ret'.err = NoErr)
            => todo'[i].Block.obj = "block"]_vars

\* the one constant lowered has been fixed twice
C8_Witness ==
  /\ ret.op = "fix" /\ ret.err = NoErr /\ calls = 2
  /\ Len(todo) = 1 /\ todo[1].Block.obj = "block"

Conforms(old, t) ==
  /\ Len(old.Fields) = Len(t.Fields)
  /\ \A i \in 1..Len(old.Fields) : irType(old.Fields[i].Typ).typ = t.Fields[i]

\* C9: lowering a struct constant fails with TypeMismatch whenever the
\* expected type is no structure type or the fields of the constant do not
\* conform to the fields of the expected structure type; {i32 1, i32 2}
\* against {i32, i32} gives the struct constant of the integers 1 and 2.
C9_StructFieldsChecked ==
  /\ (res.done /\ arg.old.node = "StructConst"
        /\ (arg.t.k # "StructType" \/ ~Conforms(arg.old, arg.t)))
       => res.err.kind = "TypeMismatch"
  /\ (res.done /\ arg.t = StructType(<<IntType(32), IntType(32)>>)
        /\ arg.old = StructConst(<<TypeConst(AstType(IntType(32)), IntConst("1")),
                                   TypeConst(AstType(IntType(32)), IntConst("2"))>>))
       => (res.err = NoErr /\ res.c.Fields[1].X = 1 /\ res.c.Fields[2].X = 2)

====
